---- MODULE Spec2Model ----
(***************************************************************************)
(* Model of steam_symlinker.py: the menu loop of main() acting on a        *)
(* filesystem.  A filesystem is a function from absolute paths (sequences  *)
(* of names) to entries (directory, regular file, symbolic link).  Each    *)
(* menu choice is one action; the functions it calls are operators that    *)
(* take a filesystem and return the new filesystem with what was reported. *)
(***************************************************************************)
EXTENDS Integers, Sequences, FiniteSets, TLC

VARIABLES fs, language, last, prev

vars == <<fs, language, last, prev>>

(***************************************************************************)
(* Bounds of the model.                                                    *)
(***************************************************************************)
\* modification times range over 0..MaxTime (seconds)
MaxTime == 2
\* symbolic links followed by one path resolution before it gives up (ELOOP)
MaxHops == 3

(***************************************************************************)
(* Filesystem entries and paths.                                           *)
(***************************************************************************)
Dir == [type |-> "dir", content |-> <<>>, mtime |-> 0, target |-> <<>>]

File(c, t) == [type |-> "file", content |-> c, mtime |-> t, target |-> <<>>]

Link(p) == [type |-> "link", content |-> <<>>, mtime |-> 0, target |-> p]

Parent(p) == SubSeq(p, 1, Len(p) - 1)

Name(p) == p[Len(p)]

IsPrefix(a, b) == Len(a) <= Len(b) /\ SubSeq(b, 1, Len(a)) = a

\* the value a resolution that met too many links yields; never a key of fs
ELoop == <<"", "ELOOP">>

\* os.path.realpath, non-strict: follow every link met on the way; a missing
\* component ends the lookup and the rest of the path is kept as it is.
RECURSIVE Walk(_, _, _, _)
Walk(f, done, rest, hops) ==
    IF rest = <<>> THEN done
    ELSE LET next == Append(done, Head(rest)) IN
         IF next \notin DOMAIN f THEN done \o rest
         ELSE IF f[next].type = "link"
              THEN IF hops = 0 THEN ELoop
                   ELSE Walk(f, <<>>, f[next].target \o Tail(rest), hops - 1)
              ELSE Walk(f, next, Tail(rest), hops)

\* Path.resolve()
Resolve(f, p) == Walk(f, <<>>, p, MaxHops)

\* where lstat looks: the parent resolved, the last name not followed
LPath(f, p) == Append(Resolve(f, Parent(p)), Name(p))

\* Path.exists(): follows links; false for a dangling link or a loop
Exists(f, p) == Resolve(f, p) \in DOMAIN f

\* Path.is_symlink()
IsSymlink(f, p) == LPath(f, p) \in DOMAIN f /\ f[LPath(f, p)].type = "link"

\* Path.is_dir(): follows links
IsDir(f, p) == Exists(f, p) /\ f[Resolve(f, p)].type = "dir"

\* a regular file can be read through p
IsFile(f, p) == Exists(f, p) /\ f[Resolve(f, p)].type = "file"

Restrict(f, S) == [q \in S |-> f[q]]

\* Path.mkdir(parents=True, exist_ok=True); p is never an existing non-directory here
RECURSIVE Mkdirs(_, _)
Mkdirs(f, p) ==
    IF p = <<>> \/ Exists(f, p) THEN f
    ELSE LET g == Mkdirs(f, Parent(p)) IN (LPath(g, p) :> Dir) @@ g

\* Path.unlink(): removes the entry itself, never what a link points to
Unlink(f, p) == Restrict(f, DOMAIN f \ {LPath(f, p)})

\* shutil.rmtree(p): removes the entry and everything below it; links found
\* below are removed as links
Rmtree(f, p) ==
    LET top == LPath(f, p) IN Restrict(f, {q \in DOMAIN f : ~IsPrefix(top, q)})

\* Path.symlink_to(src)
SymlinkTo(f, dst, src) == (LPath(f, dst) :> Link(src)) @@ f

(***************************************************************************)
(* Names and locations.                                                    *)
(***************************************************************************)
\* names matching appmanifest_*.acf, in sorted() order
AcfNames == <<"appmanifest_100.acf", "appmanifest_1628350.acf">>

RuntimeName == "SteamLinuxRuntime_sniper"

\* A path is the sequence of its names below a root directory that is taken
\* whole: no link is placed inside the name of a root.

\* main(): Path.home() / ".steam/steam/steamapps"
steamapps_local == <<"~/.steam/steam/steamapps">>

\* the library root chosen in choose_external_path(), on the exFAT drive
steamapps_ext == <<"/mnt/steamapps">>

\* ensure_runtime(): Path.home() / ".steam/runtime/SteamLinuxRuntime_sniper"
runtime_dst == <<"~/.steam/runtime", RuntimeName>>

\* a library linked earlier (another drive), where stale links point
OldLib == <<"/old/steamapps">>

(***************************************************************************)
(* Manifest text.  A file's content is the sequence of its quoted tokens.  *)
(***************************************************************************)
Manifest(name, folder, flags) ==
    <<"AppState", "name", name, "installdir", folder, "StateFlags", flags>>

\* a manifest cut short: no installdir field
Truncated(name) == <<"AppState", "name", name>>

\* re.search(r'"key"\s+"(.+?)"', content): the token after the first
\* occurrence of key, as <<value>>, or <<>> when there is no match
Search(key, content) ==
    LET at == {i \in 1..(Len(content) - 1) : content[i] = key} IN
    IF at = {} THEN <<>>
    ELSE <<content[(CHOOSE i \in at : \A j \in at : i <= j) + 1]>>

\* Path.glob("appmanifest_*.acf") sorted: the entries of the directory whose
\* names match, links included
Glob(f, dir) ==
    SelectSeq(AcfNames, LAMBDA n : Append(Resolve(f, dir), n) \in DOMAIN f)

\* parse_games over the sorted names
RECURSIVE parse_games(_, _, _)
parse_games(f, dir, names) ==
    IF names = <<>> THEN <<>>
    ELSE LET acf == Append(dir, Head(names))
             rest == parse_games(f, dir, Tail(names))
         IN  IF ~IsFile(f, acf) THEN rest
             ELSE LET content == f[Resolve(f, acf)].content
                      name_match == Search("name", content)
                      folder_match == Search("installdir", content)
                  IN  IF name_match # <<>> /\ folder_match # <<>>
                      THEN <<[acf |-> Head(names), name |-> name_match[1],
                              folder |-> folder_match[1]]>> \o rest
                      ELSE rest

(***************************************************************************)
(* safe_symlink: the result is the new filesystem, the returned boolean    *)
(* and the outcome it printed.                                             *)
(***************************************************************************)
\* faulty variant: the force flag is not consulted before a real object is removed
safe_symlink_ignores_force(f0, src, dst, force) ==
    LET f == Mkdirs(f0, Parent(dst)) IN
    IF Exists(f, dst) \/ IsSymlink(f, dst)
    THEN IF IsSymlink(f, dst)
         THEN IF Resolve(f, dst) = Resolve(f, src)
              THEN [fs |-> f, ret |-> FALSE, outcome |-> "AlreadyLinked"]
              ELSE [fs |-> SymlinkTo(Unlink(f, dst), dst, src), ret |-> TRUE,
                    outcome |-> "Replaced"]
         ELSE [fs |-> SymlinkTo(IF IsDir(f, dst) THEN Rmtree(f, dst)
                                ELSE Unlink(f, dst), dst, src),
               ret |-> TRUE, outcome |-> "Removed+Linked"]
    ELSE [fs |-> SymlinkTo(f, dst, src), ret |-> TRUE, outcome |-> "Linked"]

\* faulty variant: the directory test, which follows links, comes before the link
\* test, and the forced removal empties the directory the link leads to
safe_symlink_dir_first(f0, src, dst, force) ==
    LET f == Mkdirs(f0, Parent(dst)) IN
    IF Exists(f, dst) \/ IsSymlink(f, dst)
    THEN IF force /\ IsDir(f, dst)
         THEN LET top == Resolve(f, dst)
                  g == Restrict(f, {q \in DOMAIN f : ~IsPrefix(top, q)})
              IN  [fs |-> SymlinkTo(Unlink(g, dst), dst, src), ret |-> TRUE,
                   outcome |-> "Removed+Linked"]
         ELSE IF IsSymlink(f, dst)
         THEN IF Resolve(f, dst) = Resolve(f, src)
              THEN [fs |-> f, ret |-> FALSE, outcome |-> "AlreadyLinked"]
              ELSE [fs |-> SymlinkTo(Unlink(f, dst), dst, src), ret |-> TRUE,
                    outcome |-> "Replaced"]
         ELSE IF force
              THEN [fs |-> SymlinkTo(Unlink(f, dst), dst, src),
                    ret |-> TRUE, outcome |-> "Removed+Linked"]
              ELSE [fs |-> f, ret |-> FALSE, outcome |-> "Skipped"]
    ELSE [fs |-> SymlinkTo(f, dst, src), ret |-> TRUE, outcome |-> "Linked"]

\* faulty variant: a link is replaced without asking where it leads
safe_symlink_relinks(f0, src, dst, force) ==
    LET f == Mkdirs(f0, Parent(dst)) IN
    IF Exists(f, dst) \/ IsSymlink(f, dst)
    THEN IF IsSymlink(f, dst)
         THEN [fs |-> SymlinkTo(Unlink(f, dst), dst, src), ret |-> TRUE,
               outcome |-> "Replaced"]
         ELSE IF force
              THEN [fs |-> SymlinkTo(IF IsDir(f, dst) THEN Rmtree(f, dst)
                                     ELSE Unlink(f, dst), dst, src),
                    ret |-> TRUE, outcome |-> "Removed+Linked"]
              ELSE [fs |-> f, ret |-> FALSE, outcome |-> "Skipped"]
    ELSE [fs |-> SymlinkTo(f, dst, src), ret |-> TRUE, outcome |-> "Linked"]

\* faulty variant: with force, a link is replaced even when it leads to the source
safe_symlink_force_relinks(f0, src, dst, force) ==
    LET f == Mkdirs(f0, Parent(dst)) IN
    IF Exists(f, dst) \/ IsSymlink(f, dst)
    THEN IF IsSymlink(f, dst)
         THEN IF ~force /\ Resolve(f, dst) = Resolve(f, src)
              THEN [fs |-> f, ret |-> FALSE, outcome |-> "AlreadyLinked"]
              ELSE [fs |-> SymlinkTo(Unlink(f, dst), dst, src), ret |-> TRUE,
                    outcome |-> "Replaced"]
         ELSE IF force
              THEN [fs |-> SymlinkTo(IF IsDir(f, dst) THEN Rmtree(f, dst)
                                     ELSE Unlink(f, dst), dst, src),
                    ret |-> TRUE, outcome |-> "Removed+Linked"]
              ELSE [fs |-> f, ret |-> FALSE, outcome |-> "Skipped"]
    ELSE [fs |-> SymlinkTo(f, dst, src), ret |-> TRUE, outcome |-> "Linked"]

safe_symlink(f0, src, dst, force) ==
    LET f == Mkdirs(f0, Parent(dst)) IN
    IF Exists(f, dst) \/ IsSymlink(f, dst)
    THEN IF IsSymlink(f, dst)
         THEN IF Resolve(f, dst) = Resolve(f, src)
              THEN [fs |-> f, ret |-> FALSE, outcome |-> "AlreadyLinked"]
              ELSE [fs |-> SymlinkTo(Unlink(f, dst), dst, src), ret |-> TRUE,
                    outcome |-> "Replaced"]
         ELSE IF force
              THEN [fs |-> SymlinkTo(IF IsDir(f, dst) THEN Rmtree(f, dst)
                                     ELSE Unlink(f, dst), dst, src),
                    ret |-> TRUE, outcome |-> "Removed+Linked"]
              ELSE [fs |-> f, ret |-> FALSE, outcome |-> "Skipped"]
    ELSE [fs |-> SymlinkTo(f, dst, src), ret |-> TRUE, outcome |-> "Linked"]

\* one call of safe_symlink as the log keeps it
Call(src, dst, force, pre, r) ==
    [src |-> src, dst |-> dst, force |-> force, pre |-> pre, post |-> r.fs,
     ret |-> r.ret, outcome |-> r.outcome]

(***************************************************************************)
(* update_symlinks: the loop over the parsed games, then the whole batch.  *)
(***************************************************************************)
\* faulty variant: the install directory is handled only when the manifest was linked
RECURSIVE link_games_nested(_, _, _, _, _)
link_games_nested(st, ext, local, force, games) ==
    IF games = <<>> THEN st
    ELSE LET game == Head(games)
             src_acf == Append(ext, game.acf)
             dst_acf == Append(local, game.acf)
             r1 == safe_symlink(st.fs, src_acf, dst_acf, force)
             src_folder == ext \o <<"common", game.folder>>
             dst_folder == local \o <<"common", game.folder>>
             has == r1.ret /\ Exists(r1.fs, src_folder)
             r2 == safe_symlink(r1.fs, src_folder, dst_folder, force)
             c1 == Call(src_acf, dst_acf, force, st.fs, r1)
             c2 == Call(src_folder, dst_folder, force, r1.fs, r2)
         IN  link_games_nested(
                 [fs |-> IF has THEN r2.fs ELSE r1.fs,
                  calls |-> st.calls \o (IF has THEN <<c1, c2>> ELSE <<c1>>),
                  updated |-> st.updated + (IF r1.ret THEN 1 ELSE 0)
                                         + (IF has /\ r2.ret THEN 1 ELSE 0),
                  missing |-> st.missing],
                 ext, local, force, Tail(games))

\* faulty variant: every call is counted, whatever it returned
RECURSIVE link_games_counts_all(_, _, _, _, _)
link_games_counts_all(st, ext, local, force, games) ==
    IF games = <<>> THEN st
    ELSE LET game == Head(games)
             src_acf == Append(ext, game.acf)
             dst_acf == Append(local, game.acf)
             r1 == safe_symlink(st.fs, src_acf, dst_acf, force)
             src_folder == ext \o <<"common", game.folder>>
             dst_folder == local \o <<"common", game.folder>>
             has == Exists(r1.fs, src_folder)
             r2 == safe_symlink(r1.fs, src_folder, dst_folder, force)
             c1 == Call(src_acf, dst_acf, force, st.fs, r1)
             c2 == Call(src_folder, dst_folder, force, r1.fs, r2)
         IN  link_games_counts_all(
                 [fs |-> IF has THEN r2.fs ELSE r1.fs,
                  calls |-> st.calls \o (IF has THEN <<c1, c2>> ELSE <<c1>>),
                  updated |-> st.updated + 1 + (IF has THEN 1 ELSE 0),
                  missing |-> st.missing \cup (IF has THEN {} ELSE {game.folder})],
                 ext, local, force, Tail(games))

RECURSIVE link_games(_, _, _, _, _)
link_games(st, ext, local, force, games) ==
    IF games = <<>> THEN st
    ELSE LET game == Head(games)
             src_acf == Append(ext, game.acf)
             dst_acf == Append(local, game.acf)
             r1 == safe_symlink(st.fs, src_acf, dst_acf, force)
             src_folder == ext \o <<"common", game.folder>>
             dst_folder == local \o <<"common", game.folder>>
             has == Exists(r1.fs, src_folder)
             r2 == safe_symlink(r1.fs, src_folder, dst_folder, force)
             c1 == Call(src_acf, dst_acf, force, st.fs, r1)
             c2 == Call(src_folder, dst_folder, force, r1.fs, r2)
         IN  link_games(
                 [fs |-> IF has THEN r2.fs ELSE r1.fs,
                  calls |-> st.calls \o (IF has THEN <<c1, c2>> ELSE <<c1>>),
                  updated |-> st.updated + (IF r1.ret THEN 1 ELSE 0)
                                         + (IF has /\ r2.ret THEN 1 ELSE 0),
                  missing |-> st.missing \cup (IF has THEN {} ELSE {game.folder})],
                 ext, local, force, Tail(games))

\* faulty variant: common is created before the parsed games are looked at
update_symlinks_mkdir_first(f, ext, local, force) ==
    LET games == parse_games(f, ext, Glob(f, ext))
        g == Mkdirs(f, Append(local, "common"))
    IN
    IF games = <<>>
    THEN [fs |-> g, calls |-> <<>>, updated |-> 0, missing |-> {},
          games |-> games, aborted |-> TRUE]
    ELSE LET st == link_games(
                 [fs |-> g, calls |-> <<>>, updated |-> 0, missing |-> {}],
                 ext, local, force, games)
         IN  [fs |-> st.fs, calls |-> st.calls, updated |-> st.updated,
              missing |-> st.missing, games |-> games, aborted |-> FALSE]

update_symlinks(f, ext, local, force) ==
    LET games == parse_games(f, ext, Glob(f, ext)) IN
    IF games = <<>>
    THEN [fs |-> f, calls |-> <<>>, updated |-> 0, missing |-> {},
          games |-> games, aborted |-> TRUE]
    ELSE LET st == link_games(
                 [fs |-> Mkdirs(f, Append(local, "common")), calls |-> <<>>,
                  updated |-> 0, missing |-> {}],
                 ext, local, force, games)
         IN  [fs |-> st.fs, calls |-> st.calls, updated |-> st.updated,
              missing |-> st.missing, games |-> games, aborted |-> FALSE]

(***************************************************************************)
(* ensure_runtime: mirror the runtime directory, then link it by force.    *)
(***************************************************************************)
\* the entries below directory from, re-rooted below directory to
Copied(f, from, to) ==
    LET below == {q \in DOMAIN f : IsPrefix(from, q) /\ q # from} IN
    [q \in {to \o SubSeq(p, Len(from) + 1, Len(p)) : p \in below} |->
        f[from \o SubSeq(q, Len(to) + 1, Len(q))]]

\* rsync -a --delete src/ dst: dst keeps nothing but a copy of what src holds
Rsync(f, src, dst) ==
    LET to == Resolve(f, dst)
        kept == Restrict(f, {q \in DOMAIN f : ~(IsPrefix(to, q) /\ q # to)})
    IN  Copied(f, Resolve(f, src), to) @@ kept

\* shutil.copytree(src, dst) after shutil.rmtree(dst)
Copytree(f, src, dst) ==
    LET g == Rmtree(f, dst)
        h == (LPath(g, dst) :> Dir) @@ g
    IN  Copied(f, Resolve(f, src), LPath(g, dst)) @@ h

ensure_runtime(f, ext, rsync_path) ==
    LET runtime_src == ext \o <<"common", RuntimeName>> IN
    IF ~Exists(f, runtime_src)
    THEN [fs |-> f, calls |-> <<>>, aborted |-> TRUE]
    ELSE LET f1 == Mkdirs(f, runtime_dst)
             f2 == IF rsync_path THEN Rsync(f1, runtime_src, runtime_dst)
                   ELSE Copytree(f1, runtime_src, runtime_dst)
             steam_common == <<"~/.steam/steam/steamapps", "common">>
             f3 == Mkdirs(f2, steam_common)
             dst == Append(steam_common, RuntimeName)
             r == safe_symlink(f3, runtime_dst, dst, TRUE)
         IN  [fs |-> r.fs, calls |-> <<Call(runtime_dst, dst, TRUE, f3, r)>>,
              aborted |-> FALSE]

(***************************************************************************)
(* export_acf_to_external.                                                 *)
(***************************************************************************)
\* st_mtime of the file p leads to
Mtime(f, p) == f[Resolve(f, p)].mtime

\* the seconds a destination may be ahead of its source and not count as newer
Tolerance == 1

\* faulty variant: the tolerance is taken one second too wide
Newer_wide(src_mtime, dest_mtime) ==
    dest_mtime # <<>> /\ dest_mtime[1] > src_mtime + Tolerance + 1

\* dest_mtime > src_mtime + 1, dest_mtime being <<>> (None) or <<mtime>>
Newer(src_mtime, dest_mtime) ==
    dest_mtime # <<>> /\ dest_mtime[1] > src_mtime + Tolerance

\* the first loop: one entry per local manifest that has a backing file
RECURSIVE file_entries(_, _, _, _)
file_entries(f, ext, local, names) ==
    IF names = <<>> THEN <<>>
    ELSE LET acf == Append(local, Head(names))
             source == IF IsSymlink(f, acf) THEN Resolve(f, acf) ELSE acf
             destination == Append(ext, Head(names))
             rest == file_entries(f, ext, local, Tail(names))
         IN  IF ~Exists(f, source) THEN rest
             ELSE <<[name |-> Head(names), source |-> source,
                     destination |-> destination,
                     src_mtime |-> Mtime(f, source),
                     dest_mtime |-> IF Exists(f, destination)
                                    THEN <<Mtime(f, destination)>> ELSE <<>>]>>
                  \o rest

\* the answer to newer_warning, after strip().lower(), lets the export overwrite
Affirmative(lang, response) ==
    ~(  (lang = "it" /\ response \notin {"s", "si", "sì"})
     \/ (lang = "en" /\ response \notin {"y", "yes"}))

\* faulty variant: a destination that exists is left as it is
Copy2_keeps_existing(f, source, destination) ==
    IF Exists(f, destination) THEN f
    ELSE (LPath(f, destination) :> File(f[Resolve(f, source)].content,
                                         f[Resolve(f, source)].mtime)) @@ f

\* shutil.copy2: content and modification time of source written at destination
Copy2(f, source, destination) ==
    LET at == IF Exists(f, destination) THEN Resolve(f, destination)
              ELSE LPath(f, destination)
        from == f[Resolve(f, source)]
    IN  (at :> File(from.content, from.mtime)) @@ f

\* faulty variant: once the overwrite is declined nothing more is copied
RECURSIVE copy_entries_declined_stops(_, _, _)
copy_entries_declined_stops(st, allow_overwrite, entries) ==
    IF entries = <<>> THEN st
    ELSE LET e == Head(entries)
             f == Mkdirs(st.fs, Parent(e.destination))
             same == Exists(f, e.destination)
                     /\ Resolve(f, e.source) = Resolve(f, e.destination)
             skip == ~allow_overwrite
             did == IF same THEN "same" ELSE IF skip THEN "skip_newer" ELSE "copied"
         IN  copy_entries_declined_stops(
                 [fs |-> IF did = "copied" THEN Copy2(f, e.source, e.destination)
                         ELSE f,
                  done |-> Append(st.done, [name |-> e.name, did |-> did]),
                  count |-> st.count + (IF did = "copied" THEN 1 ELSE 0)],
                 allow_overwrite, Tail(entries))

\* faulty variant: the second loop does not ask whether source and destination
\* are the same file
RECURSIVE copy_entries_copies_same(_, _, _)
copy_entries_copies_same(st, allow_overwrite, entries) ==
    IF entries = <<>> THEN st
    ELSE LET e == Head(entries)
             f == Mkdirs(st.fs, Parent(e.destination))
             skip == ~allow_overwrite /\ Newer(e.src_mtime, e.dest_mtime)
             did == IF skip THEN "skip_newer" ELSE "copied"
         IN  copy_entries_copies_same(
                 [fs |-> IF did = "copied" THEN Copy2(f, e.source, e.destination)
                         ELSE f,
                  done |-> Append(st.done, [name |-> e.name, did |-> did]),
                  count |-> st.count + (IF did = "copied" THEN 1 ELSE 0)],
                 allow_overwrite, Tail(entries))

\* the second loop: what was done with each entry is kept beside it
RECURSIVE copy_entries(_, _, _)
copy_entries(st, allow_overwrite, entries) ==
    IF entries = <<>> THEN st
    ELSE LET e == Head(entries)
             f == Mkdirs(st.fs, Parent(e.destination))
             same == Exists(f, e.destination)
                     /\ Resolve(f, e.source) = Resolve(f, e.destination)
             skip == ~allow_overwrite /\ Newer(e.src_mtime, e.dest_mtime)
             did == IF same THEN "same" ELSE IF skip THEN "skip_newer" ELSE "copied"
         IN  copy_entries(
                 [fs |-> IF did = "copied" THEN Copy2(f, e.source, e.destination)
                         ELSE f,
                  done |-> Append(st.done, [name |-> e.name, did |-> did]),
                  count |-> st.count + (IF did = "copied" THEN 1 ELSE 0)],
                 allow_overwrite, Tail(entries))

\* newer_on_external after the first loop
CountNewer(entries) ==
    Cardinality({i \in 1..Len(entries) :
        Newer(entries[i].src_mtime, entries[i].dest_mtime)})

\* the export asks for an answer: line 535
Prompts(f, ext, local) ==
    CountNewer(file_entries(f, ext, local, Glob(f, local))) # 0

export_acf_to_external(f, ext, local, lang, response) ==
    LET acf_files == Glob(f, local) IN
    IF acf_files = <<>>
    THEN [fs |-> f, entries |-> <<>>, newer_on_external |-> 0, prompted |-> FALSE,
          allow_overwrite |-> TRUE, done |-> <<>>, count |-> 0, aborted |-> TRUE]
    ELSE LET entries == file_entries(f, ext, local, acf_files)
             newer_on_external == CountNewer(entries)
             allow_overwrite ==
                 IF newer_on_external # 0 THEN Affirmative(lang, response) ELSE TRUE
             st == copy_entries([fs |-> f, done |-> <<>>, count |-> 0],
                                allow_overwrite, entries)
         IN  [fs |-> st.fs, entries |-> entries,
              newer_on_external |-> newer_on_external,
              prompted |-> newer_on_external # 0,
              allow_overwrite |-> allow_overwrite, done |-> st.done,
              count |-> st.count, aborted |-> FALSE]

(***************************************************************************)
(* What the user may type at a prompt, and input(...).strip().lower().     *)
(***************************************************************************)
Typed == {"YES", " si", ""}

Normalised(s) ==
    CASE s = "YES" -> "yes"
      [] s = " si" -> "si"
      [] OTHER -> s

\* main(), choice 2: the typed confirmation authorises the forced update
Confirmed(lang, confirm) ==
    (lang = "en" /\ confirm = "yes") \/ (lang = "it" /\ confirm \in {"yes", "si", "sì"})

(***************************************************************************)
(* The filesystems the program may be started on.                          *)
(***************************************************************************)
Folders == <<"Foo", RuntimeName>>

Titles == <<"Foo Game", "Steam Linux Runtime">>

common_ext == Append(steamapps_ext, "common")

common_local == Append(steamapps_local, "common")

\* the filesystem holding the <<path, entry>> pairs of S
FsOf(S) == [p \in {x[1] : x \in S} |-> (CHOOSE x \in S : x[1] = p)[2]]

\* directories present at the menu: the chosen library root (lines 575-581),
\* the local root main() has created (line 584) and the old library
BaseDirs ==
    {<<d, Dir>> : d \in {steamapps_ext, common_ext, steamapps_local, OldLib}}

\* the entries of game i in the state c:
\*   ea  manifest on the drive: "none", "good", "bad" (cut short), time te
\*   ed  install directory on the drive
\*   la  local manifest: "none", "real" (written by Steam, time tl), "link",
\*       "stale" (link into the old library), "dangling"
\*   ld  local install directory: "none", "real", "link", "stale"
AppEntries(i, c) ==
    LET acf == AcfNames[i]
        dir == Folders[i]
    IN  (CASE c.ea = "good" ->
               {<<Append(steamapps_ext, acf), File(Manifest(Titles[i], dir, "4"), c.te)>>}
           [] c.ea = "bad" ->
               {<<Append(steamapps_ext, acf), File(Truncated(Titles[i]), c.te)>>}
           [] OTHER -> {})
        \cup (IF c.ed
              THEN {<<Append(common_ext, dir), Dir>>,
                    <<common_ext \o <<dir, "game.bin">>, File(<<"data">>, 0)>>}
              ELSE {})
        \cup (CASE c.la = "real" ->
               {<<Append(steamapps_local, acf),
                  File(Manifest(Titles[i], dir, "1026"), c.tl)>>}
           [] c.la = "link" ->
               {<<Append(steamapps_local, acf), Link(Append(steamapps_ext, acf))>>}
           [] c.la = "stale" ->
               {<<Append(steamapps_local, acf), Link(Append(OldLib, acf))>>,
                <<Append(OldLib, acf), File(Manifest(Titles[i], dir, "6"), c.tl)>>}
           [] c.la = "dangling" ->
               {<<Append(steamapps_local, acf), Link(Append(OldLib, acf))>>}
           [] OTHER -> {})
        \cup (CASE c.ld = "real" ->
               {<<common_local, Dir>>, <<Append(common_local, dir), Dir>>,
                <<common_local \o <<dir, "save.dat">>, File(<<"save">>, 0)>>}
           [] c.ld = "link" ->
               {<<common_local, Dir>>,
                <<Append(common_local, dir), Link(Append(common_ext, dir))>>}
           [] c.ld = "stale" ->
               {<<common_local, Dir>>,
                <<Append(common_local, dir), Link(OldLib \o <<"common", dir>>)>>,
                <<Append(OldLib, "common"), Dir>>,
                <<OldLib \o <<"common", dir>>, Dir>>,
                <<OldLib \o <<"common", dir, "old.bin">>, File(<<"data">>, 0)>>}
           [] OTHER -> {})

App(ea, te, ed, la, tl, ld) ==
    [ea |-> ea, te |-> te, ed |-> ed, la |-> la, tl |-> tl, ld |-> ld]

StartFs(c1, c2) == FsOf(BaseDirs \cup AppEntries(1, c1) \cup AppEntries(2, c2))

\* what a link may find, for the game: every pairing of local manifest and
\* local directory when the drive holds both; then the install directory
\* missing on the drive, the manifest cut short, and no manifest at all
LinkStates ==
    {App("good", 1, TRUE, la, 1, ld) :
        la \in {"none", "real", "link", "stale", "dangling"},
        ld \in {"none", "real", "link", "stale"}}
    \cup {App("good", 1, FALSE, la, 1, ld) :
        la \in {"none", "real"}, ld \in {"none", "real"}}
    \cup {App("bad", 1, TRUE, la, 1, "none") : la \in {"none", "real", "link"}}
    \cup {App("none", 1, FALSE, la, 1, "none") : la \in {"none", "real", "stale"}}

\* the runtime beside it: not there; on the drive only; installed locally by
\* Steam as well; linked already
RuntimeStates ==
    {App("none", 1, FALSE, "none", 1, "none"),
     App("good", 1, TRUE, "none", 1, "none"),
     App("good", 1, TRUE, "real", 1, "real"),
     App("good", 1, TRUE, "link", 1, "link")}

\* every combination of modification times an export may find, for the game
ExportStates ==
    {App(ea, te, TRUE, la, tl, "link") :
        ea \in {"none", "good"}, te \in 0..MaxTime,
        la \in {"real", "link", "stale", "dangling"}, tl \in 0..MaxTime}

\* the runtime's manifest beside it: none; rewritten by Steam, the drive's copy
\* as old or the newest possible
RuntimeExportStates ==
    {App("none", 0, FALSE, "none", 0, "none"),
     App("good", 0, TRUE, "real", 0, "link"),
     App("good", MaxTime, TRUE, "real", 0, "link")}

Starts == {StartFs(c1, c2) : c1 \in LinkStates, c2 \in RuntimeStates}

ExportStarts == {StartFs(c1, c2) : c1 \in ExportStates, c2 \in RuntimeExportStates}

(***************************************************************************)
(* The menu loop of main().  last is the log of the last menu action that  *)
(* ran an operation: which one, with which force flag, whether a typed     *)
(* confirmation preceded it, the filesystem before it and what it          *)
(* returned; prev remembers which action ran before that one.              *)
(***************************************************************************)
Log(op, force, confirmed, pre, r) ==
    [op |-> op, force |-> force, confirmed |-> confirmed, pre |-> pre, r |-> r]

NoResult == [aborted |-> TRUE]

Done(l) == [op |-> l.op, force |-> l.force]

Init ==
    /\ fs \in Starts
    /\ language \in {"en", "it"}
    /\ last = Log("start", FALSE, FALSE, fs, NoResult)
    /\ prev = Done(last)

\* faulty variant: choice "1" runs the batch with force, as choice "2" does
Update_forced ==
    LET r == update_symlinks(fs, steamapps_ext, steamapps_local, TRUE) IN
    /\ fs' = r.fs
    /\ last' = Log("update", TRUE, FALSE, fs, r)
    /\ prev' = Done(last)
    /\ UNCHANGED language

\* choice "1"
Update ==
    LET r == update_symlinks(fs, steamapps_ext, steamapps_local, FALSE) IN
    /\ fs' = r.fs
    /\ last' = Log("update", FALSE, FALSE, fs, r)
    /\ prev' = Done(last)
    /\ UNCHANGED language

\* choice "2": anything but the confirmation prints "cancelled" and does nothing
Force ==
    \E typed \in Typed :
        LET confirm == Normalised(typed)
            ok == Confirmed(language, confirm)
        IN
        IF ok
        THEN LET r == update_symlinks(fs, steamapps_ext, steamapps_local, TRUE) IN
             /\ fs' = r.fs
             /\ last' = Log("update", TRUE, ok, fs, r)
             /\ prev' = Done(last)
             /\ UNCHANGED language
        ELSE UNCHANGED vars

\* choice "3"
Runtime ==
    \E rsync_path \in BOOLEAN :
        LET r == ensure_runtime(fs, steamapps_ext, rsync_path) IN
        /\ fs' = r.fs
        /\ last' = Log("runtime", TRUE, FALSE, fs, r)
        /\ prev' = Done(last)
        /\ UNCHANGED language

\* choice "4"; input() is called only when newer_warning is shown
Export ==
    \E typed \in (IF Prompts(fs, steamapps_ext, steamapps_local) THEN Typed ELSE {""}) :
        LET r == export_acf_to_external(fs, steamapps_ext, steamapps_local,
                                        language, Normalised(typed)) IN
        /\ fs' = r.fs
        /\ last' = Log("export", FALSE, FALSE, fs, r)
        /\ prev' = Done(last)
        /\ UNCHANGED language

Next == Update \/ Force \/ Runtime \/ Export

Spec == Init /\ [][Next]_vars

\* the same program started on the filesystems an export may find
InitExport ==
    /\ fs \in ExportStarts
    /\ language \in {"en", "it"}
    /\ last = Log("start", FALSE, FALSE, fs, NoResult)
    /\ prev = Done(last)

SpecExport == InitExport /\ [][Next]_vars

\* the local common is a link to the drive's common (the library was moved to
\* the drive by hand): the game in every state of its manifests, its install
\* directory on the drive or not; the runtime is not installed on the drive,
\* its manifest may be
AliasStates ==
    {App(ea, 1, ed, la, tl, "none") :
        ea \in {"good", "bad"}, ed \in BOOLEAN,
        la \in {"none", "real", "link", "stale", "dangling"}, tl \in 0..MaxTime}

AliasRuntimeStates ==
    {App("none", 1, FALSE, "none", 1, "none"),
     App("good", 1, FALSE, "none", 1, "none"),
     App("good", 1, FALSE, "real", 1, "none")}

AliasStarts ==
    {FsOf(BaseDirs \cup AppEntries(1, c1) \cup AppEntries(2, c2)
          \cup {<<common_local, Link(common_ext)>>}) :
        c1 \in AliasStates, c2 \in AliasRuntimeStates}

\* the same program started where the local common leads into the drive
InitAlias ==
    /\ fs \in AliasStarts
    /\ language \in {"en", "it"}
    /\ last = Log("start", FALSE, FALSE, fs, NoResult)
    /\ prev = Done(last)

SpecAlias == InitAlias /\ [][Next]_vars

(***************************************************************************)
(* What the properties below read from the log.                            *)
(***************************************************************************)
\* the calls of safe_symlink the last action made
Calls == IF last.op \in {"update", "runtime"} THEN last.r.calls ELSE <<>>

CallSet == {Calls[i] : i \in DOMAIN Calls}

\* a real (non-link) file or directory stands at p
IsReal(f, p) == LPath(f, p) \in DOMAIN f /\ f[LPath(f, p)].type # "link"

\* the call removed the real object that stood at its destination
RemovedReal(c) ==
    /\ IsReal(c.pre, c.dst)
    /\ ~(LPath(c.pre, c.dst) \in DOMAIN c.post
         /\ c.post[LPath(c.pre, c.dst)] = c.pre[LPath(c.pre, c.dst)])

\* every entry of f other than the one at path at is in g, unchanged
KeptBut(f, g, at) ==
    \A q \in DOMAIN f \ {at} : q \in DOMAIN g /\ g[q] = f[q]

\* C1: a call with force = FALSE whose destination is a real file or
\* directory leaves the filesystem as it was, prints the skip notice and
\* returns FALSE, so that the batch does not count it as updated.
C1_SkipLeavesFilesystem ==
    /\ \A c \in CallSet :
          (~c.force /\ IsReal(c.pre, c.dst)) =>
              c.post = c.pre /\ c.outcome = "Skipped" /\ c.ret = FALSE
    /\ (last.op = "update") =>
          last.r.updated + Cardinality({i \in DOMAIN Calls :
                 ~Calls[i].force /\ IsReal(Calls[i].pre, Calls[i].dst)})
             <= Len(Calls)

\* a batch without force met a real directory holding a file and a real
\* manifest file, and both are still there
C1_Witness ==
    /\ last.op = "update" /\ ~last.force
    /\ \E c \in CallSet :
          /\ IsReal(c.pre, c.dst) /\ IsDir(c.pre, c.dst)
          /\ \E q \in DOMAIN fs : IsPrefix(LPath(fs, c.dst), q) /\ fs[q].type = "file"
    /\ \E c \in CallSet : IsReal(c.pre, c.dst) /\ IsFile(c.pre, c.dst)

\* C2: a forced call whose destination is a link to a directory changes
\* nothing but the link itself; and whenever a call removes anything
\* besides the entry at its destination, that destination was a real
\* directory and the call was forced.
C2_NeverThroughLink ==
    \A c \in CallSet :
       /\ (c.force /\ IsSymlink(c.pre, c.dst) /\ IsDir(c.pre, c.dst)) =>
             /\ KeptBut(c.pre, c.post, LPath(c.pre, c.dst))
             /\ IsSymlink(c.post, c.dst)
             /\ Resolve(c.post, c.dst) = Resolve(c.post, c.src)
       /\ ~KeptBut(c.pre, c.post, LPath(c.pre, c.dst)) =>
             c.force /\ IsReal(c.pre, c.dst) /\ IsDir(c.pre, c.dst)

\* a forced call replaced a link to a directory that holds a file, and that
\* directory still holds the file
C2_Witness ==
    \E c \in CallSet :
        /\ c.force /\ IsSymlink(c.pre, c.dst) /\ IsDir(c.pre, c.dst)
        /\ c.outcome = "Replaced"
        /\ \E q \in DOMAIN fs :
              /\ IsPrefix(Resolve(c.pre, c.dst), q) /\ q # Resolve(c.pre, c.dst)
              /\ fs[q] = c.pre[q]

\* C3 as claimed: a real object at a destination is removed only by an action
\* that the typed confirmation authorised.
C3_OnlyConfirmedRemoves ==
    \A c \in CallSet : RemovedReal(c) => last.confirmed

\* C3 amended: a real object at a destination is removed only by the batch
\* the typed confirmation authorised, or by the runtime sync (choice 3) at
\* its one destination, common/SteamLinuxRuntime_sniper, which it always
\* forces without asking.
C3_ConfirmedOrRuntime ==
    \A c \in CallSet :
        RemovedReal(c) =>
            \/ last.op = "update" /\ last.confirmed
            \/ last.op = "runtime" /\ c.dst = Append(common_local, RuntimeName)

\* the confirmed batch removed a real directory
C3_Witness ==
    /\ last.op = "update" /\ last.confirmed
    /\ \E c \in CallSet : RemovedReal(c) /\ IsDir(c.pre, c.dst)

\* C4: a call whose destination is a link resolving to what the source
\* resolves to, forced or not, leaves the filesystem as it was, reports
\* "already linked" and returns FALSE, so that it is not counted.
C4_AlreadyLinkedLeavesFilesystem ==
    /\ \A c \in CallSet :
          (IsSymlink(c.pre, c.dst) /\ Resolve(c.pre, c.dst) = Resolve(c.pre, c.src)) =>
              c.post = c.pre /\ c.outcome = "AlreadyLinked" /\ c.ret = FALSE
    /\ (last.op = "update") =>
          last.r.updated + Cardinality({i \in DOMAIN Calls :
                 /\ IsSymlink(Calls[i].pre, Calls[i].dst)
                 /\ Resolve(Calls[i].pre, Calls[i].dst)
                       = Resolve(Calls[i].pre, Calls[i].src)})
             <= Len(Calls)

\* a forced batch met a link to the source directory and left it
C4_Witness ==
    /\ last.op = "update" /\ last.force
    /\ \E c \in CallSet :
          /\ IsSymlink(c.pre, c.dst) /\ IsDir(c.pre, c.dst)
          /\ Resolve(c.pre, c.dst) = c.src
          /\ fs[LPath(fs, c.dst)] = Link(c.src)

\* the last two actions were the batch, run with the same force flag
SecondRun ==
    prev.op = "update" /\ last.op = "update" /\ prev.force = last.force

\* C5 as claimed: the second of two batches in succession changes nothing,
\* counts 0 and reports "already linked" for every pair.
C5_SecondRunAllAlreadyLinked ==
    SecondRun =>
        /\ fs = last.pre
        /\ last.r.updated = 0
        /\ \A c \in CallSet : c.outcome = "AlreadyLinked"

\* C5 amended: the second of two batches in succession changes nothing and
\* counts 0; every pair is reported "already linked", or, without force,
\* skipped again because a real object stands at the destination.
C5_SecondRunChangesNothing ==
    SecondRun =>
        /\ fs = last.pre
        /\ last.r.updated = 0
        /\ \A c \in CallSet :
              \/ c.outcome = "AlreadyLinked"
              \/ ~last.force /\ c.outcome = "Skipped" /\ IsReal(c.pre, c.dst)

\* a second batch ran and found one pair linked and one blocked
C5_Witness ==
    /\ SecondRun
    /\ \E c \in CallSet : c.outcome = "AlreadyLinked"
    /\ \E c \in CallSet : c.outcome = "Skipped"

NameSet == {AcfNames[i] : i \in DOMAIN AcfNames}

\* dst is a link to src
LinkedTo(f, dst, src) == IsSymlink(f, dst) /\ f[LPath(f, dst)].target = src

\* the text has both fields the parser looks for
HasFields(content) ==
    Search("name", content) # <<>> /\ Search("installdir", content) # <<>>

\* the batch ran and did not stop at "no games found"
BatchDone == last.op = "update" /\ ~last.r.aborted

\* C6 as claimed: after a batch that ran to completion, for every manifest
\* on the drive the local manifest path is a link to it and the local
\* common/<installdir> is a link to the drive's common/<installdir>.
C6_EveryManifestLinked ==
    BatchDone =>
        \A n \in NameSet :
            Append(steamapps_ext, n) \in DOMAIN fs =>
                /\ LinkedTo(fs, Append(steamapps_local, n), Append(steamapps_ext, n))
                /\ LET d == Search("installdir", fs[Append(steamapps_ext, n)].content) IN
                   d # <<>> =>
                       LinkedTo(fs, Append(common_local, d[1]), Append(common_ext, d[1]))

\* C6 amended: after a batch that ran to completion, for every manifest on
\* the drive that has a name and an installdir field, the local manifest
\* path is a link to it unless force was off and a real object stood there;
\* and, when the drive has common/<installdir>, the local common/<installdir>
\* is a link to it, with the same exception.
C6_ParsedManifestsLinked ==
    BatchDone =>
        \A n \in NameSet :
            (/\ Append(steamapps_ext, n) \in DOMAIN fs
             /\ HasFields(fs[Append(steamapps_ext, n)].content)) =>
                LET d == Search("installdir", fs[Append(steamapps_ext, n)].content)[1]
                    dst_acf == Append(steamapps_local, n)
                    dst_folder == Append(common_local, d)
                IN  /\ (last.force \/ ~IsReal(last.pre, dst_acf)) =>
                           LinkedTo(fs, dst_acf, Append(steamapps_ext, n))
                    /\ (/\ Exists(fs, Append(common_ext, d))
                        /\ (last.force \/ ~IsReal(last.pre, dst_folder))) =>
                           LinkedTo(fs, dst_folder, Append(common_ext, d))

\* a batch made both links of a game where there were none
C6_Witness ==
    /\ BatchDone
    /\ \E g \in {last.r.games[i] : i \in DOMAIN last.r.games} :
          /\ Append(steamapps_local, g.acf) \notin DOMAIN last.pre
          /\ Append(common_local, g.folder) \notin DOMAIN last.pre
          /\ LinkedTo(fs, Append(steamapps_local, g.acf), Append(steamapps_ext, g.acf))
          /\ LinkedTo(fs, Append(common_local, g.folder), Append(common_ext, g.folder))

(***************************************************************************)
(* The export, read from the filesystem before it (last.pre) and after it. *)
(***************************************************************************)
Exported == last.op = "export" /\ ~last.r.aborted

\* the local manifest names and, for each, the file behind it
LocalNames(f) == {n \in NameSet : Append(steamapps_local, n) \in DOMAIN f}

Backing(f, n) == Resolve(f, Append(steamapps_local, n))

\* the local manifests that have a backing file
Candidates(f) == {n \in LocalNames(f) : Exists(f, Append(steamapps_local, n))}

\* the drive's copy of n is ahead of the backing file by more than secs
Ahead(f, n, secs) ==
    /\ Append(steamapps_ext, n) \in DOMAIN f
    /\ f[Append(steamapps_ext, n)].mtime > f[Backing(f, n)].mtime + secs

\* the backing file of n is the drive's copy itself
SameObject(f, n) == Backing(f, n) = Append(steamapps_ext, n)

\* the user confirmed the overwrite prompt
OptedIn == last.r.prompted /\ last.r.allow_overwrite

\* what the export did with n
DidWith(n) ==
    LET at == {i \in DOMAIN last.r.done : last.r.done[i].name = n} IN
    IF at = {} THEN "dropped" ELSE last.r.done[CHOOSE i \in at : TRUE].did

\* the drive's copy of n is now the backing file's content and time
CopiedOver(n) ==
    /\ Append(steamapps_ext, n) \in DOMAIN fs
    /\ fs[Append(steamapps_ext, n)] = last.pre[Backing(last.pre, n)]

\* C7 as claimed: without a confirmed prompt, the export leaves every copy
\* on the drive that is strictly newer than the local backing file unchanged.
C7_StrictlyNewerKept ==
    Exported =>
        \A n \in Candidates(last.pre) :
            (Ahead(last.pre, n, 0) /\ ~OptedIn) =>
                fs[Append(steamapps_ext, n)] = last.pre[Append(steamapps_ext, n)]

\* C7 amended: without a confirmed prompt, the export leaves every copy on
\* the drive that is newer than the local backing file by more than one
\* second unchanged (a copy ahead by one second or less is overwritten
\* without a prompt).
C7_NewerBeyondToleranceKept ==
    Exported =>
        \A n \in Candidates(last.pre) :
            (Ahead(last.pre, n, Tolerance) /\ ~OptedIn) =>
                /\ last.r.prompted
                /\ fs[Append(steamapps_ext, n)] = last.pre[Append(steamapps_ext, n)]
                /\ DidWith(n) = "skip_newer"

\* an export was declined and kept a copy two seconds ahead of a local file
\* whose content differs
C7_Witness ==
    /\ Exported /\ last.r.prompted /\ ~last.r.allow_overwrite
    /\ \E n \in Candidates(last.pre) :
          /\ Ahead(last.pre, n, Tolerance)
          /\ fs[Append(steamapps_ext, n)].content
                # last.pre[Backing(last.pre, n)].content
          /\ fs[Append(steamapps_ext, n)] = last.pre[Append(steamapps_ext, n)]

\* the prompt is shown exactly when a copy on the drive is ahead by more than
\* one second, and carries the number of such copies
PromptCountsNewer ==
    LET newer == {n \in Candidates(last.pre) : Ahead(last.pre, n, Tolerance)} IN
    /\ last.r.prompted <=> newer # {}
    /\ last.r.newer_on_external = Cardinality(newer)

\* C8 as claimed: the prompt counts the copies ahead by more than one
\* second; when it is declined each of them is left untouched and uncounted,
\* and every other manifest is copied and counted.
C8_DeclinedCopiesAllOthers ==
    Exported =>
        LET newer == {n \in Candidates(last.pre) : Ahead(last.pre, n, Tolerance)} IN
        /\ PromptCountsNewer
        /\ ~last.r.allow_overwrite =>
              /\ \A n \in newer :
                    /\ fs[Append(steamapps_ext, n)] = last.pre[Append(steamapps_ext, n)]
                    /\ DidWith(n) = "skip_newer"
              /\ \A n \in Candidates(last.pre) \ newer :
                    DidWith(n) = "copied" /\ CopiedOver(n)
              /\ last.r.count = Cardinality(Candidates(last.pre) \ newer)

\* C8 amended: as claimed, except that a manifest whose backing file is the
\* drive's copy itself is neither copied nor counted.
C8_DeclinedCopiesOthersButSame ==
    Exported =>
        LET newer == {n \in Candidates(last.pre) : Ahead(last.pre, n, Tolerance)}
            same == {n \in Candidates(last.pre) : SameObject(last.pre, n)}
        IN
        /\ PromptCountsNewer
        /\ ~last.r.allow_overwrite =>
              /\ \A n \in newer :
                    /\ fs[Append(steamapps_ext, n)] = last.pre[Append(steamapps_ext, n)]
                    /\ DidWith(n) = "skip_newer"
              /\ \A n \in Candidates(last.pre) \ (newer \cup same) :
                    DidWith(n) = "copied" /\ CopiedOver(n)
              /\ \A n \in same :
                    /\ DidWith(n) = "same"
                    /\ fs[Append(steamapps_ext, n)] = last.pre[Append(steamapps_ext, n)]
              /\ last.r.count = Cardinality(Candidates(last.pre) \ (newer \cup same))

\* a declined export skipped one manifest as newer and copied another over a
\* different copy on the drive
C8_Witness ==
    /\ Exported /\ last.r.prompted /\ ~last.r.allow_overwrite
    /\ \E n \in NameSet : DidWith(n) = "skip_newer"
    /\ \E n \in NameSet :
          /\ DidWith(n) = "copied"
          /\ Append(steamapps_ext, n) \in DOMAIN last.pre
          /\ fs[Append(steamapps_ext, n)] # last.pre[Append(steamapps_ext, n)]

\* what can be read at p: <<content>>, or <<>> when nothing can
Content(f, p) == IF IsFile(f, p) THEN <<f[Resolve(f, p)].content>> ELSE <<>>

\* C9 as claimed: when a batch follows an export, every local manifest path
\* that could be read before the export reads the same after the batch.
C9_RoundTrip ==
    [][(last.op = "export" /\ last'.op = "update") =>
          \A n \in LocalNames(last.pre) :
              IsFile(last.pre, Append(steamapps_local, n)) =>
                  Content(fs', Append(steamapps_local, n))
                      = Content(last.pre, Append(steamapps_local, n))]_vars

\* C9 amended: when a batch follows an export, every local manifest path
\* that could be read before the export reads the same after the batch,
\* except a manifest the export skipped because the drive's copy was newer
\* by more than one second and the overwrite was declined.
C9_RoundTripUnlessSkipped ==
    [][(last.op = "export" /\ last'.op = "update") =>
          \A n \in LocalNames(last.pre) :
              (IsFile(last.pre, Append(steamapps_local, n))
                  /\ DidWith(n) # "skip_newer") =>
                  Content(fs', Append(steamapps_local, n))
                      = Content(last.pre, Append(steamapps_local, n))]_vars

\* a forced batch after an export replaced a real local manifest by a link
\* to the drive's copy, which now reads as the local file did
C9_Witness ==
    /\ prev.op = "export" /\ last.op = "update" /\ last.force /\ ~last.r.aborted
    /\ \E n \in NameSet :
          /\ IsReal(last.pre, Append(steamapps_local, n))
          /\ LinkedTo(fs, Append(steamapps_local, n), Append(steamapps_ext, n))
          /\ Content(fs, Append(steamapps_local, n))
                = Content(last.pre, Append(steamapps_local, n))
          /\ Content(fs, Append(steamapps_local, n))
                # <<Manifest(Titles[1], Folders[1], "4")>>

\* one manifest and its install directory on the drive, nothing local
FreshLocal ==
    StartFs(App("good", 1, TRUE, "none", 1, "none"),
            App("none", 1, FALSE, "none", 1, "none"))

\* the same with a real directory at the local common/<installdir>
BlockedFolder ==
    StartFs(App("good", 1, TRUE, "none", 1, "real"),
            App("none", 1, FALSE, "none", 1, "none"))

\* C10: the count the batch reports is the number of calls that linked,
\* replaced or removed and linked; it is 2 for one manifest with its install
\* directory and an empty local directory without force, and 1 when a real
\* directory stands at the local common/<installdir>.
C10_UpdatedCount ==
    BatchDone =>
        /\ last.r.updated = Cardinality({i \in DOMAIN Calls :
               Calls[i].outcome \in {"Linked", "Replaced", "Removed+Linked"}})
        /\ (last.pre = FreshLocal /\ ~last.force) => last.r.updated = 2
        /\ (last.pre = BlockedFolder /\ ~last.force) => last.r.updated = 1

\* the batch without force ran on the second scenario: manifest linked,
\* directory skipped
C10_Witness ==
    /\ BatchDone /\ ~last.force /\ last.pre = BlockedFolder
    /\ last.r.updated = 1
    /\ \E c \in CallSet : c.outcome = "Linked"
    /\ \E c \in CallSet : c.outcome = "Skipped"

(***************************************************************************)
(* The two operations that stop before they start.                         *)
(***************************************************************************)
\* no manifest on the drive gives the parser both of its fields
NoGames(f) ==
    \A n \in NameSet :
        ~(IsFile(f, Append(steamapps_ext, n))
          /\ HasFields(f[Resolve(f, Append(steamapps_ext, n))].content))

\* C11: a batch that parses no manifest from the drive, and an export that
\* finds no manifest in the local root, report it and leave the filesystem
\* as it was: no directory created, no link made, no file copied.
C11_EmptyBatchAborts ==
    /\ (last.op = "update" /\ NoGames(last.pre)) =>
          /\ last.r.aborted /\ fs = last.pre
          /\ last.r.calls = <<>> /\ last.r.updated = 0
    /\ (last.op = "export" /\ LocalNames(last.pre) = {}) =>
          /\ last.r.aborted /\ fs = last.pre
          /\ last.r.done = <<>> /\ last.r.count = 0

\* a batch, then an export, both ran where the drive holds a manifest cut
\* short and the local root holds nothing: common has not been created
C11_Witness ==
    /\ prev.op = "update" /\ last.op = "export" /\ last.r.aborted
    /\ NoGames(last.pre) /\ LocalNames(last.pre) = {}
    /\ \E n \in NameSet : IsFile(fs, Append(steamapps_ext, n))
    /\ common_local \notin DOMAIN fs
    /\ fs = last.pre

(***************************************************************************)
(* The export of manifests that are the drive's own.                       *)
(***************************************************************************)
\* the local manifests whose backing file is the drive's copy itself
Same(f) == {n \in Candidates(f) : SameObject(f, n)}

\* an export skips every manifest backed by the drive's own copy: not
\* copied, not counted as copied, not counted as newer
SameObjectSkipped ==
    Exported =>
        /\ \A n \in Same(last.pre) :
              /\ DidWith(n) = "same"
              /\ fs[Append(steamapps_ext, n)] = last.pre[Append(steamapps_ext, n)]
              /\ ~Ahead(last.pre, n, Tolerance)
        /\ last.r.count <= Cardinality(Candidates(last.pre) \ Same(last.pre))
        /\ last.r.newer_on_external
              <= Cardinality(Candidates(last.pre) \ Same(last.pre))

\* the export ran right after a batch
ExportAfterBatch == prev.op = "update" /\ last.op = "export"

\* C12 as claimed: an export skips every manifest backed by the drive's own
\* copy; hence an export right after a batch that left every manifest of the
\* drive linked copies 0 files and changes nothing.
C12_LinkedBatchExportsNothing ==
    /\ SameObjectSkipped
    /\ (/\ ExportAfterBatch
        /\ \E n \in NameSet : Append(steamapps_ext, n) \in DOMAIN last.pre
        /\ \A n \in NameSet :
              Append(steamapps_ext, n) \in DOMAIN last.pre =>
                  LinkedTo(last.pre, Append(steamapps_local, n),
                           Append(steamapps_ext, n))) =>
          last.r.count = 0 /\ fs = last.pre

\* C12 amended: an export skips every manifest backed by the drive's own
\* copy; hence an export right after a batch that left every manifest of the
\* local root backed by the drive's copy of the same name copies 0 files and
\* changes nothing (a manifest that is only in the local root is exported).
C12_AllLocalLinkedExportsNothing ==
    /\ SameObjectSkipped
    /\ (/\ ExportAfterBatch
        /\ LocalNames(last.pre) = Same(last.pre)) =>
          last.r.count = 0 /\ fs = last.pre

\* an export right after a batch found both local manifests to be links to
\* the drive's copies, skipped both and copied nothing
C12_Witness ==
    /\ ExportAfterBatch /\ Exported
    /\ LocalNames(last.pre) = NameSet /\ Same(last.pre) = NameSet
    /\ \A n \in NameSet :
          /\ LinkedTo(last.pre, Append(steamapps_local, n), Append(steamapps_ext, n))
          /\ DidWith(n) = "same"
    /\ last.r.count = 0 /\ fs = last.pre

(***************************************************************************)
(* The drive's library under a batch.                                      *)
(***************************************************************************)
\* the entries of the drive's library: the manifests, common and all below
Library(f) == {q \in DOMAIN f : IsPrefix(steamapps_ext, q)}

\* C13: a batch, with force or without, deletes or alters no file or
\* directory of the drive's library, also where a destination path reaches
\* the same object as its source: every entry the library had before the
\* batch is there after it, unchanged.
C13_BatchKeepsLibrary ==
    (last.op = "update") =>
        \A q \in Library(last.pre) : q \in DOMAIN fs /\ fs[q] = last.pre[q]

\* a forced batch, its destination common/<installdir> reaching the source
\* directory through the link at the local common, removed that directory
\* with the file in it and left a link to itself in its place
C13_Witness ==
    /\ last.op = "update" /\ last.force
    /\ \E c \in CallSet :
          /\ LPath(c.pre, c.dst) = c.src
          /\ IsReal(c.pre, c.dst) /\ IsDir(c.pre, c.dst)
          /\ Append(c.src, "game.bin") \in DOMAIN c.pre
          /\ Append(c.src, "game.bin") \notin DOMAIN fs
          /\ fs[c.src] = Link(c.src)
          /\ ~Exists(fs, c.src)

====
